---- MODULE Spec2Model ----
(***************************************************************************)
(* Business-hours SLA engine of jira-sla-pipeline.                         *)
(*                                                                         *)
(*   src/src/sla_calculation.py       holiday resolver, business-hours     *)
(*                                    calculator, SLA compliance, filter   *)
(*   src/src/silver/transform_silver.py  validation and expected hours     *)
(*                                                                         *)
(* Time is kept exact at datetime's resolution (one microsecond).  A       *)
(* timestamp is [day, sec, us]: a calendar day of the modelled window, the *)
(* second of that day and the microsecond of that second.  A duration is   *)
(* [s, u] (whole seconds, microseconds).  Hours are kept in hundredths     *)
(* (1000 is 10.0 hours), which is what round(..., 2) returns.              *)
(***************************************************************************)
EXTENDS Integers, Sequences, FiniteSets, TLC

VARIABLES
    pc,             \* position of the caller: "call" before, "done" after
    call_start,     \* arguments of calculate_business_hours
    call_end,
    call_country,
    result,         \* what calculate_business_hours returned
    used_holidays,  \* the set get_public_holidays returned to it
    total_seconds,  \* the loop's accumulator when it returned
    cache,          \* entries of get_public_holidays' lru_cache
    fetchLog,       \* the requests sent to the holiday service, in order
    df,             \* the dataframe the last operation returned: its rows
    columns,        \* ... and its column names
    df_in,          \* the dataframe the last operation was given
    columns_in,
    last_op,        \* the last dataframe operation and its argument
    rejected_rows,  \* rows written to data/silver/rejected_rows.csv
    n_calls,        \* calls of get_public_holidays made so far
    last_call,      \* the latest call of get_public_holidays: key, returned
                    \* set, requests sent, their outcomes, cache before it
    prev_call,      \* the call before the latest one
    use_order,      \* the keys asked for so far, least recently asked first
    workers,        \* per record of a concurrent batch: position and the
                    \* holiday set its call was handed
    cache0          \* the cache and request log when the workers started

calcVars == <<pc, call_start, call_end, call_country, result, used_holidays,
              total_seconds>>

frameVars == <<df, columns, df_in, columns_in, last_op, rejected_rows>>

resolverVars == <<n_calls, last_call, prev_call, use_order, workers, cache0>>

vars == <<pc, call_start, call_end, call_country, result, used_holidays, total_seconds,
          cache, fetchLog, df, columns, df_in, columns_in, last_op, rejected_rows,
          n_calls, last_call, prev_call, use_order, workers, cache0>>

----------------------------------------------------------------------------
(* Bounds of the model *)

\* last calendar day of the modelled window (day 0 is Friday 2023-12-29)
MaxDay == 5

\* most rows of a dataframe given to filter_completed_issues
MaxFilterRows == 3

\* most rows of a dataframe given to the other dataframe operations
MaxRows == 2

----------------------------------------------------------------------------
(* Calendar: datetime.date *)

Days == 0 .. MaxDay

\* date.weekday(): Monday is 0 ... Sunday is 6; day 0 is a Friday
weekday(d) == (4 + d) % 7

\* date.year: days 0..2 are 29-31 December 2023, day 3 is 1 January 2024
year(d) == IF d <= 2 THEN 2023 ELSE 2024

SecondsPerDay == 86400
MicrosPerSecond == 1000000

\* times of day the inputs are drawn from:
\*   00:00:00, 00:00:18.000001, 08:00:00, 18:00:00, 23:59:59.999999
TimesOfDay ==
    { <<0, 0>>, <<18, 1>>, <<28800, 0>>, <<64800, 0>>, <<86399, 999999>> }

\* a datetime value
Datetime(d, s, u) == [kind |-> "datetime", day |-> d, sec |-> s, us |-> u]

Timestamps == { Datetime(d, t[1], t[2]) : d \in Days, t \in TimesOfDay }

\* pd.NaT / None, and a string that pd.to_datetime cannot parse
NaT == [kind |-> "NaT", day |-> 0, sec |-> 0, us |-> 0]
Unparseable == [kind |-> "str", day |-> 0, sec |-> 0, us |-> 0]

\* datetime comparison
TsLess(a, b) ==
    \/ a.day < b.day
    \/ a.day = b.day /\ a.sec < b.sec
    \/ a.day = b.day /\ a.sec = b.sec /\ a.us < b.us

TsLeq(a, b) == a = b \/ TsLess(a, b)

TsMax(a, b) == IF TsLess(a, b) THEN b ELSE a
TsMin(a, b) == IF TsLess(a, b) THEN a ELSE b

\* datetime.combine(current_day, time(0, 0))
DayStart(d) == Datetime(d, 0, 0)

\* datetime.combine(current_day, time(23, 59, 59, 999999))
DayLastInstant(d) == Datetime(d, 86399, 999999)

\* (b - a).total_seconds() for a <= b, exact
TsDiff(b, a) ==
    LET secs == (b.day - a.day) * SecondsPerDay + (b.sec - a.sec)
        mics == b.us - a.us
    IN  IF mics < 0 THEN [s |-> secs - 1, u |-> mics + MicrosPerSecond]
                    ELSE [s |-> secs, u |-> mics]

ZeroDuration == [s |-> 0, u |-> 0]

\* total_seconds += ...
DurAdd(x, y) ==
    LET mics == x.u + y.u
    IN  [s |-> x.s + y.s + (mics \div MicrosPerSecond), u |-> mics % MicrosPerSecond]

----------------------------------------------------------------------------
(* round(total_seconds / 3600, 2) *)

\* one hundredth of an hour is 36 seconds
SecondsPerHundredth == 36
HalfHundredthMicros == 18000000

\* The result in hundredths of an hour.  The quotient is rounded to the
\* nearest hundredth.  An exact half is rounded to the even hundredth, the
\* rule of Python's round(); the halves the inputs of this model produce
\* (6.005, 16.005 and 24.005 hours) are rounded down by CPython, as here.
RoundHundredths(total) ==
    LET q   == total.s \div SecondsPerHundredth
        rem == (total.s % SecondsPerHundredth) * MicrosPerSecond + total.u
    IN  IF rem > HalfHundredthMicros THEN q + 1
        ELSE IF rem < HalfHundredthMicros THEN q
        ELSE IF q % 2 = 0 THEN q ELSE q + 1

----------------------------------------------------------------------------
(* Holiday resolver: _fetch_public_holidays_for_year, get_public_holidays *)

Countries == {"BR"}

\* what one request gives: an exception, or the set of dates of the response
FetchFailed == [ok |-> FALSE, dates |-> {}]
Fetched(dates) == [ok |-> TRUE, dates |-> dates]

\* Dates of the window the external holiday service may list for a year.
\* The service is outside the repository: any subset may come back.
ListedDays == {0, 3, 4}

HolidayCandidates(y) == { d \in Days : year(d) = y /\ d \in ListedDays }

\* Outcome of one request: requests.get / raise_for_status / resp.json()
\* raise (FetchFailed), or the dates of the response are returned as a set.
fetch_public_holidays_for_year(y, cc) ==
    {FetchFailed} \cup { Fetched(ds) : ds \in SUBSET HolidayCandidates(y) }

\* tuple(range(start_day.year, end_day.year + 1))
YearsRange(y1, y2) == [i \in 1 .. (y2 - y1 + 1) |-> y1 + i - 1]

\* the outcomes of the requests of one uncached call, one per year of the tuple
FetchOutcomes(years_tuple, cc) ==
    { o \in [1 .. Len(years_tuple) ->
                {FetchFailed} \cup { Fetched(ds) : ds \in SUBSET ListedDays }] :
        \A i \in 1 .. Len(years_tuple) :
            o[i] \in fetch_public_holidays_for_year(years_tuple[i], cc) }

\* the body of get_public_holidays if the first failed fetch ended the loop
ResolveHolidays_aborting(years_tuple, outcome) ==
    UNION { IF \A j \in 1 .. i : outcome[j].ok THEN outcome[i].dates ELSE {} :
            i \in 1 .. Len(years_tuple) }

\* body of get_public_holidays: a failed year adds nothing, the loop goes on
ResolveHolidays(years_tuple, outcome) ==
    UNION { IF outcome[i].ok THEN outcome[i].dates ELSE {} :
            i \in 1 .. Len(years_tuple) }

\* @lru_cache(maxsize=8)
LruMaxSize == 8

\* The cache is the sequence of its entries, least recently used first.
CacheKeys(c) == { c[i].key : i \in 1 .. Len(c) }

CacheIndex(c, k) == CHOOSE i \in 1 .. Len(c) : c[i].key = k

CacheLookup(c, k) == c[CacheIndex(c, k)].value

\* a hit that left the entry where it was: eviction in order of insertion
CacheTouch_keeping_place(c, k) == c

\* a hit moves the entry to the most recently used end
CacheTouch(c, k) ==
    LET i == CacheIndex(c, k)
    IN  SubSeq(c, 1, i - 1) \o SubSeq(c, i + 1, Len(c)) \o <<c[i]>>

\* a miss appends the entry and drops the least recently used one when full
CacheInsert(c, k, v) ==
    LET added == Append(c, [key |-> k, value |-> v])
    IN  IF Len(added) > LruMaxSize THEN Tail(added) ELSE added

----------------------------------------------------------------------------
(* Business-hours calculator: calculate_business_hours *)

\* what a call gives back: a float (in hundredths of an hour), pd.NA, or an
\* exception that leaves the function
Float(n) == [kind |-> "float", v |-> n]
NA == [kind |-> "NA", v |-> 0]
Raised == [kind |-> "raised", v |-> 0]
NotCalled == [kind |-> "none", v |-> 0]

\* pd.isna
isna(x) == x = NaT

\* a variant that answers an empty or inverted span with pd.NA, as for a
\* missing timestamp
NonPositiveSpanResult_unknown == NA

\* return 0.0 (the span is empty or inverted)
NonPositiveSpanResult == Float(0)

\* a variant of the loop body that does not look at the holiday set
DaySeconds_ignoring_holidays(current_day, start_ts, end_ts, holidays) ==
    LET is_weekend   == weekday(current_day) >= 5
        period_start == TsMax(start_ts, DayStart(current_day))
        period_end   == TsMin(end_ts, DayLastInstant(current_day))
    IN  IF ~is_weekend /\ TsLess(period_start, period_end)
        THEN TsDiff(period_end, period_start)
        ELSE ZeroDuration

\* a variant of the loop body whose weekend test is weekday() > 5, which
\* counts Saturdays
DaySeconds_counting_saturday(current_day, start_ts, end_ts, holidays) ==
    LET is_weekend   == weekday(current_day) > 5
        is_holiday   == current_day \in holidays
        period_start == TsMax(start_ts, DayStart(current_day))
        period_end   == TsMin(end_ts, DayLastInstant(current_day))
    IN  IF ~is_weekend /\ ~is_holiday /\ TsLess(period_start, period_end)
        THEN TsDiff(period_end, period_start)
        ELSE ZeroDuration

\* a variant of the loop body that does not cut the day's window at end_ts
DaySeconds_to_end_of_day(current_day, start_ts, end_ts, holidays) ==
    LET is_weekend   == weekday(current_day) >= 5
        is_holiday   == current_day \in holidays
        period_start == TsMax(start_ts, DayStart(current_day))
        period_end   == DayLastInstant(current_day)
    IN  IF ~is_weekend /\ ~is_holiday /\ TsLess(period_start, period_end)
        THEN TsDiff(period_end, period_start)
        ELSE ZeroDuration

\* body of the while loop for one current_day: the seconds that day adds
DaySeconds(current_day, start_ts, end_ts, holidays) ==
    LET is_weekend   == weekday(current_day) >= 5
        is_holiday   == current_day \in holidays
        window_start == DayStart(current_day)
        window_end   == DayLastInstant(current_day)
        period_start == TsMax(start_ts, window_start)
        period_end   == TsMin(end_ts, window_end)
    IN  IF ~is_weekend /\ ~is_holiday /\ TsLess(period_start, period_end)
        THEN TsDiff(period_end, period_start)
        ELSE ZeroDuration

\* the while loop: current_day from start_day through end_day
RECURSIVE TotalSeconds(_, _, _, _)
TotalSeconds(current_day, start_ts, end_ts, holidays) ==
    IF current_day > end_ts.day THEN ZeroDuration
    ELSE DurAdd(DaySeconds(current_day, start_ts, end_ts, holidays),
                TotalSeconds(current_day + 1, start_ts, end_ts, holidays))

\* hours = round(total_seconds / 3600, 2), in hundredths
BusinessHours(start_ts, end_ts, holidays) ==
    RoundHundredths(TotalSeconds(start_ts.day, start_ts, end_ts, holidays))

\* get_public_holidays if a miss asked the service only for the years that no
\* cached key of the jurisdiction holds
get_public_holidays_per_year(c, years_tuple, cc, outcome) ==
    LET k == <<years_tuple, cc>>
        seen(y) == \E j \in 1 .. Len(c) :
                      /\ c[j].key[2] = cc
                      /\ \E n \in 1 .. Len(c[j].key[1]) : c[j].key[1][n] = y
    IN  IF k \in CacheKeys(c)
        THEN [value |-> CacheLookup(c, k), cache |-> CacheTouch(c, k), requests |-> <<>>]
        ELSE [value |-> ResolveHolidays(years_tuple, outcome),
              cache |-> CacheInsert(c, k, ResolveHolidays(years_tuple, outcome)),
              requests |-> SelectSeq([i \in 1 .. Len(years_tuple) |-> <<years_tuple[i], cc>>],
                                     LAMBDA q : ~seen(q[1]))]

\* get_public_holidays if a resolution with a failed year were not kept in the
\* cache, so that the next call asked the service again
get_public_holidays_retrying_failures(c, years_tuple, cc, outcome) ==
    LET k == <<years_tuple, cc>>
    IN  IF k \in CacheKeys(c)
        THEN [value |-> CacheLookup(c, k), cache |-> CacheTouch(c, k), requests |-> <<>>]
        ELSE [value |-> ResolveHolidays(years_tuple, outcome),
              cache |-> IF \E i \in 1 .. Len(years_tuple) : ~outcome[i].ok
                        THEN c
                        ELSE CacheInsert(c, k, ResolveHolidays(years_tuple, outcome)),
              requests |-> [i \in 1 .. Len(years_tuple) |-> <<years_tuple[i], cc>>]]

\* get_public_holidays(years_tuple, country_code) on cache c; outcome is what
\* the requests of a miss would bring.  Gives the returned set, the cache
\* afterwards and the requests sent.
get_public_holidays(c, years_tuple, cc, outcome) ==
    LET k == <<years_tuple, cc>>
    IN  IF k \in CacheKeys(c)
        THEN [value    |-> CacheLookup(c, k),
              cache    |-> CacheTouch(c, k),
              requests |-> <<>>]
        ELSE [value    |-> ResolveHolidays(years_tuple, outcome),
              cache    |-> CacheInsert(c, k, ResolveHolidays(years_tuple, outcome)),
              requests |-> [i \in 1 .. Len(years_tuple) |-> <<years_tuple[i], cc>>]]

\* the years tuple a call with these two datetimes asks for
YearsOf(start, end) == YearsRange(year(start.day), year(end.day))

\* calculate_business_hours(start_ts, end_ts, country_code) on cache c
calculate_business_hours(c, start, end, cc, outcome) ==
    IF isna(start) \/ isna(end)
    THEN [result |-> NA, holidays |-> {}, total |-> ZeroDuration,
          cache |-> c, requests |-> <<>>]
    ELSE IF start = Unparseable \/ end = Unparseable
    THEN \* pd.to_datetime(...) raises on a string it cannot parse
         [result |-> Raised, holidays |-> {}, total |-> ZeroDuration,
          cache |-> c, requests |-> <<>>]
    ELSE IF TsLeq(end, start)
    THEN [result |-> NonPositiveSpanResult, holidays |-> {}, total |-> ZeroDuration,
          cache |-> c, requests |-> <<>>]
    ELSE LET h == get_public_holidays(c, YearsOf(start, end), cc, outcome)
         IN  [result   |-> Float(BusinessHours(start, end, h.value)),
              holidays |-> h.value,
              total    |-> TotalSeconds(start.day, start, end, h.value),
              cache    |-> h.cache,
              requests |-> h.requests]

----------------------------------------------------------------------------
(* Dataframes *)

\* None / pd.NA in a string column
NullStr == "<NA>"

\* the last operation: its name and its completed_statuses argument (only
\* filter_completed_issues has one; given = FALSE is the default None)
Op(name) == [name |-> name, given |-> FALSE, statuses |-> {}]
NoOp == Op("none")

\* A row holds every field the pipeline knows; columns says which of them
\* the dataframe has.  A field of a column the dataframe lacks is NullStr / NA.
Row(id, st, pr, cr, rs, sla) ==
    [issue_id |-> id, status |-> st, priority |-> pr,
     created_at |-> cr, resolved_at |-> rs,
     resolution_hours |-> NA,
     resolution_business_hours |-> NA,
     sla_expected_hours |-> sla,
     is_sla_met |-> NullStr]

\* no call of get_public_holidays yet
NoCall ==
    [key |-> <<<<>>, "">>, value |-> {}, requests |-> <<>>, outcome |-> <<>>,
     hit |-> FALSE, before |-> <<>>]

\* the resolver's bookkeeping in a process that has not called it and runs
\* no concurrent batch
ResolverIdle ==
    /\ n_calls = 0
    /\ last_call = NoCall
    /\ prev_call = NoCall
    /\ use_order = <<>>
    /\ workers = <<>>
    /\ cache0 = [cache |-> <<>>, fetchLog |-> <<>>]

----------------------------------------------------------------------------
(* One call of calculate_business_hours in a fresh process *)

CalcInputs == Timestamps \cup {NaT, Unparseable}

NoOutcome == <<>>

\* the outcomes that can accompany a call: those of its years tuple when the
\* call reaches get_public_holidays, none otherwise
CallOutcomes(start, end, cc) ==
    IF start \in Timestamps /\ end \in Timestamps /\ TsLess(start, end)
    THEN FetchOutcomes(YearsOf(start, end), cc)
    ELSE {NoOutcome}

InitCalc ==
    /\ pc = "call"
    /\ call_start \in CalcInputs
    /\ call_end \in CalcInputs
    /\ call_country \in Countries
    /\ result = NotCalled
    /\ used_holidays = {}
    /\ total_seconds = ZeroDuration
    /\ cache = <<>>
    /\ fetchLog = <<>>
    /\ df = <<>>
    /\ columns = {}
    /\ df_in = <<>>
    /\ columns_in = {}
    /\ last_op = NoOp
    /\ rejected_rows = <<>>
    /\ ResolverIdle

Calculate ==
    /\ pc = "call"
    /\ \E outcome \in CallOutcomes(call_start, call_end, call_country) :
         LET r == calculate_business_hours(cache, call_start, call_end, call_country, outcome)
         IN  /\ result' = r.result
             /\ used_holidays' = r.holidays
             /\ total_seconds' = r.total
             /\ cache' = r.cache
             /\ fetchLog' = fetchLog \o r.requests
    /\ pc' = "done"
    /\ UNCHANGED <<call_start, call_end, call_country>>
    /\ UNCHANGED frameVars
    /\ UNCHANGED resolverVars

NextCalc == Calculate

SpecCalc == InitCalc /\ [][NextCalc]_vars

----------------------------------------------------------------------------
(* Properties of calculate_business_hours, checked under SpecCalc *)

\* the call got two datetimes with start < end and ran its loop
RanLoop ==
    /\ pc = "done"
    /\ call_start \in Timestamps
    /\ call_end \in Timestamps
    /\ TsLess(call_start, call_end)

\* C1: for start < end the result is the sum, over the Monday-Friday days of
\* the span that are not holidays, of the overlap of [start, end] with the
\* full day [d 00:00, d+1 00:00), divided by 3600 and rounded to 2 decimals.
C1_FullDayOverlapSum ==
    RanLoop =>
        LET overlap(d) ==
                LET lo == TsMax(call_start, Datetime(d, 0, 0))
                    hi == TsMin(call_end, Datetime(d + 1, 0, 0))
                IN  IF weekday(d) < 5 /\ d \notin used_holidays /\ TsLess(lo, hi)
                    THEN TsDiff(hi, lo) ELSE ZeroDuration
            sum[d \in 0 .. MaxDay + 1] ==
                IF d > call_end.day THEN ZeroDuration
                ELSE DurAdd(overlap(d), sum[d + 1])
        IN  result = Float(RoundHundredths(sum[call_start.day]))

\* C2: whenever end <= start the result is exactly 0.0, and no result is
\* negative.
C2_NonPositiveSpanIsZero ==
    /\ (/\ pc = "done"
        /\ call_start \in Timestamps
        /\ call_end \in Timestamps
        /\ TsLeq(call_end, call_start)) => result = Float(0)
    /\ result.kind = "float" => result.v >= 0

C2_Witness ==
    /\ pc = "done"
    /\ call_start \in Timestamps
    /\ call_end \in Timestamps
    /\ TsLess(call_end, call_start)
    /\ result = Float(0)

\* C3: when the start or the end is missing or unparseable the calculation
\* returns null, neither 0.0 nor an error.
C3_MissingOrUnparseableIsNull ==
    (/\ pc = "done"
     /\ \/ call_start \in {NaT, Unparseable}
        \/ call_end \in {NaT, Unparseable}) => result = NA

\* the accumulator of the call on the part [a, b] of the span, nothing when
\* the part is empty
PartSeconds(a, b) ==
    IF TsLess(a, b) THEN TotalSeconds(a.day, a, b, used_holidays) ELSE ZeroDuration

\* C9: a day of the resolved holiday set adds nothing: the call counted what
\* the span before that day and the span after it give, and a span lying on
\* one holiday returns 0.0.
C9_HolidayAddsNothing ==
    RanLoop =>
        /\ \A h \in used_holidays :
               total_seconds =
                   DurAdd(PartSeconds(call_start, TsMin(call_end, DayStart(h))),
                          PartSeconds(TsMax(call_start, DayStart(h + 1)), call_end))
        /\ (call_start.day = call_end.day /\ call_start.day \in used_holidays)
               => result = Float(0)

\* a Monday holiday covered in full by a span that also has counted time
C9_Witness ==
    /\ RanLoop
    /\ \E h \in used_holidays :
          /\ weekday(h) < 5
          /\ call_start.day < h
          /\ call_end.day > h
    /\ result.v > 0

\* C10: a span inside one weekend returns 0.0, and the Saturday and Sunday
\* of a longer span add nothing: the call counted what the span before the
\* Saturday and the span from the Monday on give.
C10_WeekendAddsNothing ==
    RanLoop =>
        /\ (/\ weekday(call_start.day) >= 5
            /\ weekday(call_end.day) >= 5
            /\ call_end.day - call_start.day <= 1) => result = Float(0)
        /\ \A sat \in { d \in Days : weekday(d) = 5 } :
               total_seconds =
                   DurAdd(PartSeconds(call_start, TsMin(call_end, DayStart(sat))),
                          PartSeconds(TsMax(call_start, DayStart(sat + 2)), call_end))

\* a Friday-to-Monday span with counted time on both sides of the weekend
C10_Witness ==
    /\ RanLoop
    /\ weekday(call_start.day) = 4
    /\ weekday(call_end.day) = 0
    /\ call_end.day - call_start.day = 3
    /\ call_end.day \notin used_holidays
    /\ call_start.day \notin used_holidays
    /\ call_end.sec > 0
    /\ result.v > 0

----------------------------------------------------------------------------
(* Completion filter: filter_completed_issues *)

DefaultCompletedStatuses == {"Done", "Resolved"}

\* filter_completed_issues(df_issues, completed_statuses) on the rows and
\* columns of df_issues; arg.given = FALSE is completed_statuses=None
filter_completed_issues(rows, cols, arg) ==
    LET completed_statuses ==
            IF arg.given THEN arg.statuses ELSE DefaultCompletedStatuses
    IN  IF "status" \notin cols
        THEN rows
        ELSE SelectSeq(rows, LAMBDA r : r.status \in completed_statuses)

\* the status values of the input dataframes
StatusValues == {"Done", "Resolved", "Open", "done", NullStr}

\* the completed_statuses arguments tried: None, and a caller's own set
CompletedArgs ==
    { Op("filter_completed_issues"),
      [name |-> "filter_completed_issues", given |-> TRUE,
       statuses |-> {"Resolved", "Closed"}] }

IssueIds == <<"JIRA-1", "JIRA-2", "JIRA-3", "JIRA-4", "JIRA-5">>

BlankRow(i) == Row(IssueIds[i], NullStr, NullStr, NaT, NaT, NA)

\* dataframes of n rows with a status column
FramesWithStatus(n) ==
    { [i \in 1 .. n |-> [BlankRow(i) EXCEPT !.status = st[i]]] :
        st \in [1 .. n -> StatusValues] }

InitFilter ==
    /\ pc = "idle"
    /\ call_start = NaT
    /\ call_end = NaT
    /\ call_country = "BR"
    /\ result = NotCalled
    /\ used_holidays = {}
    /\ total_seconds = ZeroDuration
    /\ cache = <<>>
    /\ fetchLog = <<>>
    /\ \E n \in 0 .. MaxFilterRows :
          \/ /\ df \in FramesWithStatus(n)
             /\ columns = {"issue_id", "status"}
          \/ /\ df = [i \in 1 .. n |-> BlankRow(i)]
             /\ columns = {"issue_id"}
    /\ df_in = <<>>
    /\ columns_in = {}
    /\ last_op = NoOp
    /\ rejected_rows = <<>>
    /\ ResolverIdle

FilterCompletedIssues ==
    /\ \E arg \in CompletedArgs :
          /\ df' = filter_completed_issues(df, columns, arg)
          /\ last_op' = arg
    /\ df_in' = df
    /\ columns_in' = columns
    /\ UNCHANGED <<columns, rejected_rows, cache, fetchLog>>
    /\ UNCHANGED calcVars
    /\ UNCHANGED resolverVars

NextFilter == FilterCompletedIssues

SpecFilter == InitFilter /\ [][NextFilter]_vars

\* the completed set the last call of filter_completed_issues used
CompletedUsed == IF last_op.given THEN last_op.statuses ELSE {"Done", "Resolved"}

\* row r of the input has a status and it is in the completed set
IsCompleted(r) == "status" \in columns_in /\ r.status \in CompletedUsed

\* C7: filter_completed_issues returns exactly the input records whose status
\* is a member of the completed set, once each, in their original order and
\* unchanged.
C7_ExactlyCompletedInOrder ==
    last_op.name = "filter_completed_issues" =>
        df = SelectSeq(df_in, IsCompleted)

\* C7 on the dataframes that have a status column: there the returned rows
\* are exactly the completed ones, in order and unchanged.
C7_WithStatusColumn ==
    (last_op.name = "filter_completed_issues" /\ "status" \in columns_in) =>
        df = SelectSeq(df_in, LAMBDA r : r.status \in CompletedUsed)

\* C8: a record without a status is excluded; an input with no status
\* information at all gives no records.
C8_MissingStatusExcluded ==
    last_op.name = "filter_completed_issues" =>
        /\ \A i \in 1 .. Len(df) : df[i].status # NullStr
        /\ "status" \notin columns_in => df = <<>>

----------------------------------------------------------------------------
(* add_resolution_business_hours *)

\* a timestamp with UTC offset -03:00 (wall-clock day, second, microsecond)
AwareMinus3(d, sc, u) == [kind |-> "datetime-03:00", day |-> d, sec |-> sc, us |-> u]

\* pd.to_datetime(col, errors='coerce', utc=True) then .dt.tz_convert(None):
\* a naive value is taken as UTC, an aware one is converted to UTC, None and
\* what cannot be parsed become NaT
to_utc_naive(x) ==
    IF x.kind = "datetime" THEN x
    ELSE IF x.kind = "datetime-03:00"
    THEN LET t == x.sec + 3 * 3600
         IN  Datetime(x.day + (t \div SecondsPerDay), t % SecondsPerDay, x.us)
    ELSE NaT

\* the years tuples the rows of a dataframe make calculate_business_hours ask for
NeededYears(rows) ==
    { YearsOf(to_utc_naive(rows[i].created_at), to_utc_naive(rows[i].resolved_at)) :
        i \in { j \in 1 .. Len(rows) :
                  /\ to_utc_naive(rows[j].created_at) # NaT
                  /\ to_utc_naive(rows[j].resolved_at) # NaT
                  /\ TsLess(to_utc_naive(rows[j].created_at),
                            to_utc_naive(rows[j].resolved_at)) } }

\* what the holiday service would answer during one batch: the outcome of the
\* requests of each years tuple the batch can miss on
BatchOutcomes(rows, cc) ==
    LET needed == NeededYears(rows)
        all    == UNION { FetchOutcomes(y, cc) : y \in needed }
    IN  { o \in [needed -> all] : \A y \in needed : o[y] \in FetchOutcomes(y, cc) }

\* df.apply(lambda r: calculate_business_hours(...), axis=1) on the rows from
\* row i on, with the cache as the rows before left it
RECURSIVE ApplyRows(_, _, _, _, _)
ApplyRows(rows, i, c, cc, outcomes) ==
    IF i > Len(rows) THEN [rows |-> rows, cache |-> c, requests |-> <<>>]
    ELSE LET created  == to_utc_naive(rows[i].created_at)
             resolved == to_utc_naive(rows[i].resolved_at)
             y        == IF created # NaT /\ resolved # NaT /\ TsLess(created, resolved)
                         THEN YearsOf(created, resolved) ELSE <<>>
             r        == calculate_business_hours(c, created, resolved, cc,
                             IF y \in DOMAIN outcomes THEN outcomes[y] ELSE NoOutcome)
             row      == [rows[i] EXCEPT !.created_at = created,
                                         !.resolved_at = resolved,
                                         !.resolution_business_hours = r.result]
             rest     == ApplyRows([rows EXCEPT ![i] = row], i + 1, r.cache, cc, outcomes)
         IN  [rows |-> rest.rows, cache |-> rest.cache,
              requests |-> r.requests \o rest.requests]

add_resolution_business_hours(rows, c, cc, outcomes) ==
    ApplyRows(rows, 1, c, cc, outcomes)

----------------------------------------------------------------------------
(* attach_sla_compliance *)

\* a variant with a nullable boolean: a null operand gives a null flag
SlaMet_nullable(resolution, sla) ==
    IF resolution.kind # "float" \/ sla.kind # "float" THEN NullStr
    ELSE IF resolution.v <= sla.v THEN "True" ELSE "False"

\* a variant that compares with < instead of <=
SlaMet_strict(resolution, sla) ==
    IF resolution.kind = "float" /\ sla.kind = "float" /\ resolution.v < sla.v
    THEN "True" ELSE "False"

\* one element of notna(resolution) & notna(sla) & (resolution <= sla);
\* both numbers are kept in hundredths of an hour
SlaMet(resolution, sla) ==
    IF resolution.kind = "float" /\ sla.kind = "float" /\ resolution.v <= sla.v
    THEN "True" ELSE "False"

attach_sla_compliance(rows) ==
    [i \in 1 .. Len(rows) |->
        [rows[i] EXCEPT !.is_sla_met =
            SlaMet(rows[i].resolution_business_hours, rows[i].sla_expected_hours)]]


----------------------------------------------------------------------------
(* Gold layer: business hours and compliance of a dataframe *)

\* a number of whole hours as a float
Hours(n) == Float(100 * n)

\* Tuesday 2024-01-02 08:00
CreatedValues == { Datetime(4, 28800, 0), NaT }

\* 11:30, 09:00-03:00 (12:00 UTC), 12:30, None, a string that is no date
ResolvedValues ==
    { Datetime(4, 41400, 0), AwareMinus3(4, 32400, 0), Datetime(4, 45000, 0),
      NaT, Unparseable }

ExpectedValues == { Hours(4), NA }

GoldColumns == {"issue_id", "created_at", "resolved_at", "sla_expected_hours"}

GoldFrames(n) ==
    { [i \in 1 .. n |-> Row(IssueIds[i], NullStr, NullStr, f[i][1], f[i][2], f[i][3])] :
        f \in [1 .. n -> CreatedValues \X ResolvedValues \X ExpectedValues] }

InitGold ==
    /\ pc = "idle"
    /\ call_start = NaT
    /\ call_end = NaT
    /\ call_country = "BR"
    /\ result = NotCalled
    /\ used_holidays = {}
    /\ total_seconds = ZeroDuration
    /\ cache = <<>>
    /\ fetchLog = <<>>
    /\ \E n \in 1 .. MaxRows : df \in GoldFrames(n)
    /\ columns = GoldColumns
    /\ df_in = <<>>
    /\ columns_in = {}
    /\ last_op = NoOp
    /\ rejected_rows = <<>>
    /\ ResolverIdle

\* add_resolution_business_hours(df) with the default country_code; its
\* callers hand it a dataframe with rows (build_gold.py, lines 99-103 and
\* 231-236)
AddResolutionBusinessHours ==
    /\ Len(df) > 0
    /\ {"created_at", "resolved_at"} \subseteq columns
    /\ \E outcomes \in BatchOutcomes(df, "BR") :
          LET r == add_resolution_business_hours(df, cache, "BR", outcomes)
          IN  /\ df' = r.rows
              /\ cache' = r.cache
              /\ fetchLog' = fetchLog \o r.requests
    /\ columns' = columns \cup {"resolution_business_hours"}
    /\ df_in' = df
    /\ columns_in' = columns
    /\ last_op' = Op("add_resolution_business_hours")
    /\ UNCHANGED rejected_rows
    /\ UNCHANGED calcVars
    /\ UNCHANGED resolverVars

\* attach_sla_compliance(df) with the default column names
AttachSlaCompliance ==
    /\ {"resolution_business_hours", "sla_expected_hours"} \subseteq columns
    /\ df' = attach_sla_compliance(df)
    /\ columns' = columns \cup {"is_sla_met"}
    /\ df_in' = df
    /\ columns_in' = columns
    /\ last_op' = Op("attach_sla_compliance")
    /\ UNCHANGED <<rejected_rows, cache, fetchLog>>
    /\ UNCHANGED calcVars
    /\ UNCHANGED resolverVars

NextGold == AddResolutionBusinessHours \/ AttachSlaCompliance

SpecGold == InitGold /\ [][NextGold]_vars

\* C3, the dataframe: after add_resolution_business_hours a record whose
\* created_at or resolved_at was missing or unparseable has a null
\* resolution_business_hours.
C3_FrameLeavesNull ==
    last_op.name = "add_resolution_business_hours" =>
        /\ Len(df) = Len(df_in)
        /\ \A i \in 1 .. Len(df) :
              (\/ df_in[i].created_at \in {NaT, Unparseable}
               \/ df_in[i].resolved_at \in {NaT, Unparseable})
                  => df[i].resolution_business_hours = NA

C5_MetIffWithinExpected ==
    last_op.name = "attach_sla_compliance" =>
        \A i \in 1 .. Len(df) :
            (/\ df[i].resolution_business_hours # NA
             /\ df[i].sla_expected_hours # NA)
                => /\ df[i].is_sla_met \in {"True", "False"}
                   /\ df[i].is_sla_met = "True" <=>
                        df[i].resolution_business_hours.v <= df[i].sla_expected_hours.v

\* expected 4 hours: exactly 4.0 is met and 4.5 is not, in one dataframe
C5_Witness ==
    /\ last_op.name = "attach_sla_compliance"
    /\ \E i \in 1 .. Len(df) :
          /\ df[i].resolution_business_hours = Float(400)
          /\ df[i].sla_expected_hours = Hours(4)
          /\ df[i].is_sla_met = "True"
    /\ \E i \in 1 .. Len(df) :
          /\ df[i].resolution_business_hours = Float(450)
          /\ df[i].sla_expected_hours = Hours(4)
          /\ df[i].is_sla_met = "False"


----------------------------------------------------------------------------
(* Silver layer: src/src/silver/transform_silver.py *)

\* pd.to_datetime(col, errors='coerce'): what cannot be parsed becomes NaT
to_datetime_coerce(x) == IF x.kind = "str" THEN NaT ELSE x

allowed_priorities == {"Critical", "High", "Medium", "Low"}

\* a variant of the validation rules without the isin(allowed_priorities) test
required_mask_any_priority(r) ==
    /\ r.issue_id # NullStr
    /\ r.created_at # NaT
    /\ r.priority # NullStr

\* the row passes the validation rules
required_mask(r) ==
    /\ r.issue_id # NullStr
    /\ r.created_at # NaT
    /\ r.priority # NullStr
    /\ r.priority \in allowed_priorities

\* validate_and_filter_types(df_issues): the rows it returns and the rows it
\* writes to rejected_rows.csv (both with the timestamps coerced)
validate_and_filter_types(rows) ==
    LET coerced == [i \in 1 .. Len(rows) |->
                      [rows[i] EXCEPT !.created_at = to_datetime_coerce(@),
                                      !.resolved_at = to_datetime_coerce(@)]]
    IN  [rows     |-> SelectSeq(coerced, required_mask),
         rejected |-> SelectSeq(coerced, LAMBDA r : ~required_mask(r))]

\* one element of ((resolved_at - created_at).dt.total_seconds() / 3600).round(2)
ResolutionHours(created, resolved) ==
    IF created = NaT \/ resolved = NaT THEN NA
    ELSE IF TsLeq(created, resolved)
    THEN Float(RoundHundredths(TsDiff(resolved, created)))
    ELSE Float(0 - RoundHundredths(TsDiff(created, resolved)))

\* calculate_resolution_hours(df_issues): pd.to_datetime raises on a string
\* that is no date, the except branch then returns the dataframe as it was
calculate_resolution_hours(rows, cols) ==
    IF \E i \in 1 .. Len(rows) :
          rows[i].created_at.kind = "str" \/ rows[i].resolved_at.kind = "str"
    THEN [rows |-> rows, columns |-> cols]
    ELSE [rows |-> [i \in 1 .. Len(rows) |->
                      [rows[i] EXCEPT !.resolution_hours =
                          ResolutionHours(rows[i].created_at, rows[i].resolved_at)]],
          columns |-> cols \cup {"resolution_hours"}]

\* the default sla_config
sla_config == [Critical |-> 4, High |-> 8, Medium |-> 24, Low |-> 72]

\* one element of df_issues['priority'].map(sla_config)
ExpectedHours(priority) ==
    IF priority \in DOMAIN sla_config THEN Hours(sla_config[priority]) ELSE NA

\* add_sla_expected_hours(df_issues)
add_sla_expected_hours(rows) ==
    [i \in 1 .. Len(rows) |->
        [rows[i] EXCEPT !.sla_expected_hours = ExpectedHours(rows[i].priority)]]

\* transform_silver_layer(df_issues)
transform_silver_layer(rows, cols) ==
    LET valid == validate_and_filter_types(rows)
        timed == calculate_resolution_hours(valid.rows, cols)
    IN  [rows     |-> add_sla_expected_hours(timed.rows),
         columns  |-> timed.columns \cup {"sla_expected_hours"},
         rejected |-> valid.rejected]

\* most rows of a dataframe given to the silver layer
MaxSilverRows == 2

PriorityValues == allowed_priorities \cup {"Urgent", NullStr}

\* Tuesday 2024-01-02 08:00, or a string that is no date
SilverCreatedValues == { Datetime(4, 28800, 0), Unparseable }

SilverColumns == {"issue_id", "priority", "created_at", "resolved_at"}

\* flattened issues: row i has its own issue id or none, resolved at 12:00
SilverFrames(n) ==
    { [i \in 1 .. n |->
          Row(IF f[i][1] THEN IssueIds[i] ELSE NullStr, NullStr, f[i][2], f[i][3],
              Datetime(4, 43200, 0), NA)] :
        f \in [1 .. n -> BOOLEAN \X PriorityValues \X SilverCreatedValues] }

InitSilver ==
    /\ pc = "idle"
    /\ call_start = NaT
    /\ call_end = NaT
    /\ call_country = "BR"
    /\ result = NotCalled
    /\ used_holidays = {}
    /\ total_seconds = ZeroDuration
    /\ cache = <<>>
    /\ fetchLog = <<>>
    /\ \E n \in 1 .. MaxSilverRows : df \in SilverFrames(n)
    /\ columns = SilverColumns
    /\ df_in = <<>>
    /\ columns_in = {}
    /\ last_op = NoOp
    /\ rejected_rows = <<>>
    /\ ResolverIdle

\* the pipeline: transform_silver_layer on the flattened issues
TransformSilverLayer ==
    /\ last_op = NoOp
    /\ LET r == transform_silver_layer(df, columns)
       IN  /\ df' = r.rows
           /\ columns' = r.columns
           /\ rejected_rows' = IF r.rejected # <<>> THEN r.rejected ELSE rejected_rows
    /\ df_in' = df
    /\ columns_in' = columns
    /\ last_op' = Op("transform_silver_layer")
    /\ UNCHANGED <<cache, fetchLog>>
    /\ UNCHANGED calcVars
    /\ UNCHANGED resolverVars

\* add_sla_expected_hours called on its own on the flattened issues
AddSlaExpectedHours ==
    /\ last_op = NoOp
    /\ df' = add_sla_expected_hours(df)
    /\ columns' = columns \cup {"sla_expected_hours"}
    /\ df_in' = df
    /\ columns_in' = columns
    /\ last_op' = Op("add_sla_expected_hours")
    /\ UNCHANGED <<rejected_rows, cache, fetchLog>>
    /\ UNCHANGED calcVars
    /\ UNCHANGED resolverVars

NextSilver == TransformSilverLayer \/ AddSlaExpectedHours

SpecSilver == InitSilver /\ [][NextSilver]_vars

\* the output rows that carry the issue id of input row i
OutputOf(i) == { j \in 1 .. Len(df) : df[j].issue_id = df_in[i].issue_id }

\* C6: a record that passes through the pipeline gets its expected hours from
\* the table Critical:4, High:8, Medium:24, Low:72, and a record whose
\* priority is none of the four is kept in the output with null expected
\* hours.
C6_UnknownPriorityKeptWithNull ==
    last_op.name = "transform_silver_layer" =>
        /\ \A j \in 1 .. Len(df) :
              df[j].priority \in allowed_priorities =>
                  df[j].sla_expected_hours =
                      Hours(CASE df[j].priority = "Critical" -> 4
                              [] df[j].priority = "High" -> 8
                              [] df[j].priority = "Medium" -> 24
                              [] df[j].priority = "Low" -> 72)
        /\ \A i \in 1 .. Len(df_in) :
              (/\ df_in[i].priority \notin allowed_priorities
               /\ df_in[i].issue_id # NullStr
               /\ df_in[i].created_at.kind = "datetime")
                  => \E j \in OutputOf(i) : df[j].sla_expected_hours = NA

\* C6 as amended: a record in the output of the pipeline has its expected
\* hours from the table; a record whose priority is none of the four is
\* rejected by validate_and_filter_types (absent from the output, written to
\* the rejected rows); add_sla_expected_hours on its own keeps such a record
\* with null expected hours.
C6_UnknownPriorityRejected ==
    /\ last_op.name = "transform_silver_layer" =>
        /\ \A j \in 1 .. Len(df) :
              /\ df[j].priority \in allowed_priorities
              /\ df[j].sla_expected_hours =
                      Hours(CASE df[j].priority = "Critical" -> 4
                              [] df[j].priority = "High" -> 8
                              [] df[j].priority = "Medium" -> 24
                              [] df[j].priority = "Low" -> 72)
        /\ \A i \in 1 .. Len(df_in) :
              df_in[i].priority \notin allowed_priorities =>
                  /\ \A j \in 1 .. Len(df) : df[j].issue_id # df_in[i].issue_id
                                              \/ df_in[i].issue_id = NullStr
                  /\ \E k \in 1 .. Len(rejected_rows) :
                        /\ rejected_rows[k].issue_id = df_in[i].issue_id
                        /\ rejected_rows[k].priority = df_in[i].priority
    /\ last_op.name = "add_sla_expected_hours" =>
        /\ Len(df) = Len(df_in)
        /\ \A i \in 1 .. Len(df) :
              /\ df[i].issue_id = df_in[i].issue_id
              /\ df_in[i].priority \notin allowed_priorities
                    => df[i].sla_expected_hours = NA

\* the pipeline dropped a record with priority "Urgent" and kept a "Critical"
\* one with 4 expected hours
C6_Witness ==
    /\ last_op.name = "transform_silver_layer"
    /\ \E i \in 1 .. Len(df_in) :
          /\ df_in[i].priority = "Urgent"
          /\ df_in[i].issue_id # NullStr
          /\ df_in[i].created_at.kind = "datetime"
    /\ \E j \in 1 .. Len(df) :
          /\ df[j].priority = "Critical"
          /\ df[j].sla_expected_hours = Hours(4)

----------------------------------------------------------------------------
(* Repeated calls of calculate_business_hours in one process: the holiday
   resolver get_public_holidays behind its lru_cache *)

\* calls that reach get_public_holidays in one behaviour
MaxCalls == 3

\* a Friday of 2023 twice, and a Tuesday and a Wednesday of 2024: the spans
\* between them ask for the years (2023,), (2023, 2024) and (2024,)
CacheGrid ==
    {Datetime(0, 28800, 0), Datetime(0, 64800, 0),
     Datetime(4, 28800, 0), Datetime(5, 64800, 0)}

\* line 74 passed: the call goes on to line 84
ReachesResolver(start, end) ==
    /\ start \in Timestamps
    /\ end \in Timestamps
    /\ TsLess(start, end)

\* moving key k to the most recently asked end of the history
Asked(order, k) == SelectSeq(order, LAMBDA x : x # k) \o <<k>>

\* what one call of get_public_holidays did, as seen from outside
CallRecord(c, k, r, outcome) ==
    [key |-> k, value |-> r.holidays, requests |-> r.requests,
     outcome |-> outcome, hit |-> k \in CacheKeys(c), before |-> c]

InitCache ==
    /\ pc = "call"
    /\ call_start = NaT
    /\ call_end = NaT
    /\ call_country = "BR"
    /\ result = NotCalled
    /\ used_holidays = {}
    /\ total_seconds = ZeroDuration
    /\ cache = <<>>
    /\ fetchLog = <<>>
    /\ df = <<>>
    /\ columns = {}
    /\ df_in = <<>>
    /\ columns_in = {}
    /\ last_op = NoOp
    /\ rejected_rows = <<>>
    /\ ResolverIdle

\* one more call of calculate_business_hours; a call that reaches line 84 is
\* a call of get_public_holidays, whose requests are drawn only on a miss
Recalculate ==
    /\ n_calls < MaxCalls
    /\ \E start \in CacheGrid, end \in CacheGrid, cc \in Countries :
         IF ReachesResolver(start, end)
         THEN LET k == <<YearsOf(start, end), cc>>
              IN  \E outcome \in IF k \in CacheKeys(cache)
                                 THEN {NoOutcome}
                                 ELSE FetchOutcomes(YearsOf(start, end), cc) :
                    LET r == calculate_business_hours(cache, start, end, cc, outcome)
                    IN  /\ result' = r.result
                        /\ used_holidays' = r.holidays
                        /\ total_seconds' = r.total
                        /\ cache' = r.cache
                        /\ fetchLog' = fetchLog \o r.requests
                        /\ n_calls' = n_calls + 1
                        /\ prev_call' = last_call
                        /\ last_call' = CallRecord(cache, k, r, outcome)
                        /\ use_order' = Asked(use_order, k)
                        /\ call_start' = start
                        /\ call_end' = end
                        /\ call_country' = cc
         ELSE LET r == calculate_business_hours(cache, start, end, cc, NoOutcome)
              IN  /\ result' = r.result
                  /\ used_holidays' = r.holidays
                  /\ total_seconds' = r.total
                  /\ call_start' = start
                  /\ call_end' = end
                  /\ call_country' = cc
                  /\ UNCHANGED <<cache, fetchLog, n_calls, prev_call, last_call, use_order>>
    /\ pc' = "done"
    /\ UNCHANGED frameVars
    /\ UNCHANGED <<workers, cache0>>

NextCache == Recalculate

SpecCache == InitCache /\ [][NextCache]_vars

----------------------------------------------------------------------------
(* Properties of get_public_holidays, checked under SpecCache *)

\* the last two calls of get_public_holidays asked for the same key
SameKeyTwice ==
    /\ n_calls >= 2
    /\ last_call.key = prev_call.key

\* C11: when the same (years, jurisdiction) is asked for twice in a row, the
\* second call is a cache hit: it sends no request and returns the set the
\* first call returned, also when a year's fetch failed in the first call.
C11_RepeatIsCacheHit ==
    SameKeyTwice =>
        /\ last_call.hit
        /\ last_call.requests = <<>>
        /\ last_call.value = prev_call.value

\* the same two-year key twice in a row, the first call a miss in which one
\* year's fetch failed and the other brought holidays
C11_Witness ==
    /\ SameKeyTwice
    /\ ~prev_call.hit
    /\ Len(prev_call.requests) = 2
    /\ \E i \in 1 .. 2 : ~prev_call.outcome[i].ok
    /\ prev_call.value # {}
    /\ result.kind = "float"

\* the latest call of calculate_business_hours reached get_public_holidays
\* and missed the cache
LastCallMissed ==
    /\ ReachesResolver(call_start, call_end)
    /\ n_calls >= 1
    /\ ~last_call.hit

\* C12: a failed fetch for one year never aborts the resolution: every year of
\* the tuple is still requested, nothing is raised, the set returned is the
\* union of the sets of the years whose fetch succeeded (empty when all
\* failed), and calculate_business_hours returns a number.
C12_FailedYearIsSkipped ==
    LastCallMissed =>
        LET years_tuple == last_call.key[1]
            cc == last_call.key[2]
        IN  /\ Len(last_call.requests) = Len(years_tuple)
            /\ \A i \in 1 .. Len(years_tuple) :
                 last_call.requests[i] = <<years_tuple[i], cc>>
            /\ last_call.value =
                 { d \in ListedDays :
                     \E i \in 1 .. Len(years_tuple) :
                        last_call.outcome[i].ok /\ d \in last_call.outcome[i].dates }
            /\ used_holidays = last_call.value
            /\ result.kind = "float"

\* the fetch of the first year failed, the second year was still requested and
\* its holidays came back
C12_Witness ==
    /\ LastCallMissed
    /\ Len(last_call.requests) = 2
    /\ ~last_call.outcome[1].ok
    /\ last_call.outcome[2].ok
    /\ last_call.value # {}
    /\ last_call.value = last_call.outcome[2].dates
    /\ result.kind = "float"

\* every fetch of the latest call failed and the call still returned a number
C12_AllFailed ==
    /\ LastCallMissed
    /\ \A i \in 1 .. Len(last_call.requests) : ~last_call.outcome[i].ok
    /\ last_call.value = {}
    /\ result.kind = "float"

\* year y of jurisdiction cc is part of a key that cache c holds
YearCached(c, y, cc) ==
    \E j \in 1 .. Len(c) :
       /\ c[j].key[2] = cc
       /\ \E n \in 1 .. Len(c[j].key[1]) : c[j].key[1][n] = y

\* C13 as stated: a miss sends requests only for the years not already fetched
\* for the jurisdiction, so that no (year, jurisdiction) is fetched again
\* while a cached key holds it.
C13_FetchesOnlyUnseenYears ==
    (n_calls >= 1 /\ ~last_call.hit) =>
        \A i \in 1 .. Len(last_call.requests) :
            ~YearCached(last_call.before, last_call.requests[i][1], last_call.requests[i][2])

\* C13 amended: the cache is looked up by the whole (years tuple,
\* jurisdiction) key.  A call whose exact key is cached sends no request; any
\* other call sends one request for every year of its tuple, in order, also
\* for a year that a cached key with another tuple already holds.
C13_MissFetchesWholeTuple ==
    (n_calls >= 1) =>
        LET years_tuple == last_call.key[1]
            cc == last_call.key[2]
        IN  /\ last_call.hit = (last_call.key \in CacheKeys(last_call.before))
            /\ last_call.requests =
                 IF last_call.key \in CacheKeys(last_call.before)
                 THEN <<>>
                 ELSE [i \in 1 .. Len(years_tuple) |-> <<years_tuple[i], cc>>]

\* (2024,) is cached for BR and (2023, 2024) is asked for: 2024 is requested
\* again together with 2023
C13_Witness ==
    /\ n_calls >= 2
    /\ prev_call.key = << <<2024>>, "BR" >>
    /\ last_call.key = << <<2023, 2024>>, "BR" >>
    /\ prev_call.key \in CacheKeys(last_call.before)
    /\ last_call.requests = << <<2023, "BR">>, <<2024, "BR">> >>
    /\ Len(fetchLog) = 3

----------------------------------------------------------------------------
(* Direct calls of get_public_holidays for more keys than the cache holds *)

\* calls of get_public_holidays in one behaviour
MaxLruCalls == 10

\* the jurisdictions asked for
LruCountries == <<"BR", "US", "AR">>

\* the years tuples asked for
LruYears == << <<2024>>, <<2023, 2024>>, <<2023>> >>

\* The keys in the order in which they are first asked for: the three tuples
\* of the first jurisdiction, then those of the second, and so on.
KeyOrder ==
    [n \in 1 .. Len(LruCountries) * Len(LruYears) |->
        <<LruYears[((n - 1) % Len(LruYears)) + 1],
          LruCountries[((n - 1) \div Len(LruYears)) + 1]>>]

\* a call asks for a key asked for before, cached or evicted, or for the next
\* key of KeyOrder
KeysToAsk(order) ==
    { order[i] : i \in 1 .. Len(order) } \cup
    (IF Len(order) < Len(KeyOrder) THEN {KeyOrder[Len(order) + 1]} ELSE {})

\* the jurisdictions whose requests can fail in these behaviours
FailingCountries == {"BR"}

\* the service answers a request with the whole list of the year, or, for a
\* jurisdiction of FailingCountries, not at all
ServiceOutcomes(years_tuple, cc) ==
    { o \in FetchOutcomes(years_tuple, cc) :
        \A i \in 1 .. Len(years_tuple) :
            IF o[i].ok
            THEN o[i].dates = HolidayCandidates(years_tuple[i])
            ELSE cc \in FailingCountries }

InitLru ==
    /\ pc = "call"
    /\ call_start = NaT
    /\ call_end = NaT
    /\ call_country = "BR"
    /\ result = NotCalled
    /\ used_holidays = {}
    /\ total_seconds = ZeroDuration
    /\ cache = <<>>
    /\ fetchLog = <<>>
    /\ df = <<>>
    /\ columns = {}
    /\ df_in = <<>>
    /\ columns_in = {}
    /\ last_op = NoOp
    /\ rejected_rows = <<>>
    /\ ResolverIdle

\* get_public_holidays(years_tuple, country_code=cc)
GetPublicHolidays ==
    /\ n_calls < MaxLruCalls
    /\ \E k \in KeysToAsk(use_order) :
         \E outcome \in IF k \in CacheKeys(cache)
                        THEN {NoOutcome}
                        ELSE ServiceOutcomes(k[1], k[2]) :
            LET h == get_public_holidays(cache, k[1], k[2], outcome)
            IN  /\ used_holidays' = h.value
                /\ cache' = h.cache
                /\ fetchLog' = fetchLog \o h.requests
                /\ n_calls' = n_calls + 1
                /\ last_call' = [key |-> k, value |-> h.value, requests |-> h.requests,
                                 outcome |-> outcome, hit |-> k \in CacheKeys(cache),
                                 before |-> cache]
                /\ use_order' = Asked(use_order, k)
                /\ call_country' = k[2]
    /\ UNCHANGED <<pc, call_start, call_end, result, total_seconds, prev_call>>
    /\ UNCHANGED frameVars
    /\ UNCHANGED <<workers, cache0>>

NextLru == GetPublicHolidays

SpecLru == InitLru /\ [][NextLru]_vars

----------------------------------------------------------------------------
(* Properties of the lru_cache of get_public_holidays, checked under SpecLru *)

\* the key of set keys that was asked for longest ago, by the history of calls
LeastRecentlyAsked(order, keys) ==
    order[CHOOSE i \in 1 .. Len(order) :
            /\ order[i] \in keys
            /\ \A j \in 1 .. (i - 1) : order[j] \notin keys]

\* the latest call missed a full cache
MissedWhenFull ==
    /\ n_calls >= 1
    /\ ~last_call.hit
    /\ Len(last_call.before) = LruMaxSize

\* C14: the cache never holds more than 8 distinct (years tuple, jurisdiction)
\* keys; a miss on a full cache evicts exactly the key asked for longest ago
\* and admits the new one; and a call never changes the value of a key that
\* is cached before and after it.
C14_BoundedLruCache ==
    /\ Len(cache) <= LruMaxSize
    /\ Cardinality(CacheKeys(cache)) = Len(cache)
    /\ (n_calls >= 1) =>
          /\ last_call.key \in CacheKeys(cache)
          /\ CacheLookup(cache, last_call.key) = last_call.value
          /\ \A k \in CacheKeys(last_call.before) \cap CacheKeys(cache) :
                CacheLookup(cache, k) = CacheLookup(last_call.before, k)
          /\ ~MissedWhenFull =>
                CacheKeys(cache) = CacheKeys(last_call.before) \cup {last_call.key}
    /\ MissedWhenFull =>
          CacheKeys(cache) =
             (CacheKeys(last_call.before)
                \ {LeastRecentlyAsked(use_order, CacheKeys(last_call.before))})
             \cup {last_call.key}

\* a ninth key arrives after the first key was asked for again: the first key
\* stays, the second one, by then the least recently used, is evicted, and
\* the first key still has the value of its failed resolution
C14_Witness ==
    /\ MissedWhenFull
    /\ last_call.key = KeyOrder[LruMaxSize + 1]
    /\ KeyOrder[1] \in CacheKeys(cache)
    /\ KeyOrder[2] \notin CacheKeys(cache)
    /\ CacheLookup(cache, KeyOrder[1]) = {}
    /\ Len(cache) = LruMaxSize

----------------------------------------------------------------------------
(* The rows of one batch computed by concurrent workers that share the
   lru_cache of get_public_holidays.  A call of the wrapped function has three
   steps: the lookup under the cache's lock, on a miss the call of the
   function body outside the lock followed by the store under the lock, and
   the day loop of calculate_business_hours. *)

\* records of one batch
MaxWorkers == 2

\* a lookup that finds nothing, as if get_public_holidays were not cached
lru_lookup_never_hit(c, k) ==
    [hit |-> FALSE, value |-> {}, cache |-> c]

\* the lookup of lru_cache: a hit hands out the stored set and moves the entry
\* to the most recently used end, a miss leaves the cache as it is
lru_lookup(c, k) ==
    IF k \in CacheKeys(c)
    THEN [hit |-> TRUE, value |-> CacheLookup(c, k), cache |-> CacheTouch(c, k)]
    ELSE [hit |-> FALSE, value |-> {}, cache |-> c]

\* the store of lru_cache after the function body returned: nothing is stored
\* when another thread stored the key in the meantime
lru_store(c, k, v) ==
    IF k \in CacheKeys(c) THEN c ELSE CacheInsert(c, k, v)

\* (created_at, resolved_at) of a record: inside Friday 2023-12-29, from that
\* Friday to Tuesday 2024-01-02, inside 2024, and an unresolved record
BatchSpans ==
    { <<Datetime(0, 28800, 0), Datetime(0, 64800, 0)>>,
      <<Datetime(0, 64800, 0), Datetime(4, 28800, 0)>>,
      <<Datetime(4, 28800, 0), Datetime(5, 64800, 0)>>,
      <<Datetime(4, 28800, 0), NaT>> }

BatchFrames(n) ==
    { [i \in 1 .. n |-> Row(IssueIds[i], NullStr, NullStr, f[i][1], f[i][2], NA)] :
        f \in [1 .. n -> BatchSpans] }

\* the cache key of row i
WorkerKey(i) == <<YearsOf(df[i].created_at, df[i].resolved_at), "BR">>

\* one field of worker i changed
WorkerAt(i, position, holidays) ==
    [workers EXCEPT ![i] = [pc |-> position, holidays |-> holidays]]

InitWorkers ==
    /\ pc = "warm"
    /\ call_start = NaT
    /\ call_end = NaT
    /\ call_country = "BR"
    /\ result = NotCalled
    /\ used_holidays = {}
    /\ total_seconds = ZeroDuration
    /\ cache = <<>>
    /\ fetchLog = <<>>
    /\ \E n \in 1 .. MaxWorkers : df \in BatchFrames(n)
    /\ columns = {"issue_id", "created_at", "resolved_at"}
    /\ df_in = df
    /\ columns_in = columns
    /\ last_op = NoOp
    /\ rejected_rows = <<>>
    /\ ResolverIdle

\* the warm step: one sequential call of get_public_holidays for a key the
\* batch needs and the cache lacks
Warm ==
    /\ pc = "warm"
    /\ \E y \in NeededYears(df) :
         /\ <<y, "BR">> \notin CacheKeys(cache)
         /\ \E outcome \in ServiceOutcomes(y, "BR") :
              LET h == get_public_holidays(cache, y, "BR", outcome)
              IN  /\ cache' = h.cache
                  /\ fetchLog' = fetchLog \o h.requests
    /\ UNCHANGED <<pc, call_start, call_end, call_country, result, used_holidays,
                   total_seconds>>
    /\ UNCHANGED frameVars
    /\ UNCHANGED resolverVars

\* the workers start, one per row, whatever the cache holds by then
StartWorkers ==
    /\ pc = "warm"
    /\ pc' = "parallel"
    /\ workers' = [i \in 1 .. Len(df) |-> [pc |-> "start", holidays |-> {}]]
    /\ cache0' = [cache |-> cache, fetchLog |-> fetchLog]
    /\ UNCHANGED <<call_start, call_end, call_country, result, used_holidays,
                   total_seconds, cache, fetchLog>>
    /\ UNCHANGED frameVars
    /\ UNCHANGED <<n_calls, last_call, prev_call, use_order>>

\* lines 65-84 of calculate_business_hours for row i, up to the lookup in the
\* cache of get_public_holidays
WorkerEnter(i) ==
    /\ pc = "parallel"
    /\ workers[i].pc = "start"
    /\ IF ReachesResolver(df[i].created_at, df[i].resolved_at)
       THEN LET l == lru_lookup(cache, WorkerKey(i))
            IN  /\ cache' = l.cache
                /\ workers' = WorkerAt(i, IF l.hit THEN "loop" ELSE "fetching", l.value)
                /\ df' = df
       ELSE /\ df' = [df EXCEPT ![i].resolution_business_hours =
                        calculate_business_hours(cache, df[i].created_at,
                            df[i].resolved_at, "BR", NoOutcome).result]
            /\ workers' = WorkerAt(i, "done", {})
            /\ cache' = cache
    /\ UNCHANGED <<pc, call_start, call_end, call_country, result, used_holidays,
                   total_seconds, fetchLog>>
    /\ UNCHANGED <<columns, df_in, columns_in, last_op, rejected_rows>>
    /\ UNCHANGED <<n_calls, last_call, prev_call, use_order, cache0>>

\* lines 44-50 for row i after a miss, and the store of what they returned
WorkerFetch(i) ==
    /\ pc = "parallel"
    /\ workers[i].pc = "fetching"
    /\ \E outcome \in ServiceOutcomes(WorkerKey(i)[1], "BR") :
         LET years_tuple == WorkerKey(i)[1]
             holidays    == ResolveHolidays(years_tuple, outcome)
         IN  /\ fetchLog' = fetchLog \o
                    [n \in 1 .. Len(years_tuple) |-> <<years_tuple[n], "BR">>]
             /\ cache' = lru_store(cache, WorkerKey(i), holidays)
             /\ workers' = WorkerAt(i, "loop", holidays)
    /\ UNCHANGED <<pc, call_start, call_end, call_country, result, used_holidays,
                   total_seconds>>
    /\ UNCHANGED frameVars
    /\ UNCHANGED <<n_calls, last_call, prev_call, use_order, cache0>>

\* lines 86-105 for row i with the set its call of get_public_holidays returned
WorkerLoop(i) ==
    /\ pc = "parallel"
    /\ workers[i].pc = "loop"
    /\ df' = [df EXCEPT ![i].resolution_business_hours =
                Float(BusinessHours(df[i].created_at, df[i].resolved_at,
                                    workers[i].holidays))]
    /\ workers' = WorkerAt(i, "done", workers[i].holidays)
    /\ UNCHANGED <<pc, call_start, call_end, call_country, result, used_holidays,
                   total_seconds, cache, fetchLog>>
    /\ UNCHANGED <<columns, df_in, columns_in, last_op, rejected_rows>>
    /\ UNCHANGED <<n_calls, last_call, prev_call, use_order, cache0>>

NextWorkers ==
    \/ Warm
    \/ StartWorkers
    \/ \E i \in 1 .. Len(workers) : WorkerEnter(i)
    \/ \E i \in 1 .. Len(workers) : WorkerFetch(i)
    \/ \E i \in 1 .. Len(workers) : WorkerLoop(i)

SpecWorkers == InitWorkers /\ [][NextWorkers]_vars

----------------------------------------------------------------------------
(* Properties of the concurrent batch, checked under SpecWorkers *)

\* the workers run and the cache held every key of the batch when they started
PreWarmed ==
    /\ pc = "parallel"
    /\ \A y \in NeededYears(df_in) : <<y, "BR">> \in CacheKeys(cache0.cache)

\* the entries of a cache, whatever their order of use
CacheContents(c) == { c[i] : i \in 1 .. Len(c) }

\* the rows as add_resolution_business_hours computes them one after the
\* other on the cache the workers started with
SequentialRun ==
    add_resolution_business_hours(df_in, cache0.cache, "BR", <<>>)

\* C15: when the cache holds every key of the batch before the workers start,
\* the workers, in any interleaving of their steps, send no request, leave
\* the keys and values of the cache as they were, and give every record the
\* result of the sequential run.
C15_PreWarmedWorkersOnlyRead ==
    PreWarmed =>
        /\ fetchLog = cache0.fetchLog
        /\ Len(cache) = Len(cache0.cache)
        /\ CacheContents(cache) = CacheContents(cache0.cache)
        /\ \A i \in 1 .. Len(workers) :
              /\ workers[i].pc # "fetching"
              /\ workers[i].pc = "done" =>
                    df[i].resolution_business_hours =
                        SequentialRun.rows[i].resolution_business_hours

\* two records with different keys finished on a pre-warmed cache, the worker
\* of the second record looked its key up first, so the order of use in the
\* cache differs from the one a sequential run leaves
C15_Witness ==
    /\ PreWarmed
    /\ Len(workers) = 2
    /\ \A i \in 1 .. 2 : workers[i].pc = "done"
    /\ WorkerKey(1) # WorkerKey(2)
    /\ \A i \in 1 .. 2 : df[i].resolution_business_hours.kind = "float"
    /\ df[1].resolution_business_hours.v > 0
    /\ workers[2].holidays # {}
    /\ cache # SequentialRun.cache
    /\ cache[Len(cache)].key = WorkerKey(1)

----------------------------------------------------------------------------
(* Bounds and monotonicity of calculate_business_hours, checked under SpecCalc *)

\* the hundredths of an hour the function returns for two datetimes when
\* get_public_holidays hands it the set holidays
HoursWith(start, end, holidays) ==
    IF TsLeq(end, start) THEN NonPositiveSpanResult.v
    ELSE BusinessHours(start, end, holidays)

\* the wall-clock length of the span in hundredths of an hour, rounded as the
\* result is; a span with end <= start has length 0
WallClockHours(start, end) ==
    IF TsLeq(end, start) THEN 0 ELSE RoundHundredths(TsDiff(end, start))

\* the call got two datetimes and returned
CalledWithDatetimes ==
    /\ pc = "done"
    /\ call_start \in Timestamps
    /\ call_end \in Timestamps

\* C16: for two present timestamps the result is a number between 0 and the
\* wall-clock length of the span in hours rounded to 2 decimals, and, for
\* every holiday set, a later end with the same start gives a result that is
\* not smaller.
C16_BoundedAndMonotone ==
    CalledWithDatetimes =>
        /\ result.kind = "float"
        /\ result.v = HoursWith(call_start, call_end, used_holidays)
        /\ 0 <= result.v
        /\ result.v <= WallClockHours(call_start, call_end)
        /\ \A holidays \in SUBSET ListedDays :
           \A later \in Timestamps :
              TsLeq(call_end, later) =>
                 HoursWith(call_start, call_end, holidays)
                    <= HoursWith(call_start, later, holidays)

\* a span over a weekend and a holiday: the result is positive, below the
\* wall-clock length, and a later end gives more
C16_Witness ==
    /\ RanLoop
    /\ used_holidays # {}
    /\ 0 < result.v
    /\ result.v < WallClockHours(call_start, call_end)
    /\ \E later \in Timestamps :
          /\ TsLess(call_end, later)
          /\ result.v < HoursWith(call_start, later, used_holidays)

\* a span inside one business day: the result is the wall-clock length
C16_EqualsWallClock ==
    /\ RanLoop
    /\ 0 < result.v
    /\ result.v = WallClockHours(call_start, call_end)

====
